---- MODULE Spec2Model ----
(***************************************************************************)
(* StyleEmbedding.forward                                                  *)
(* (src/TrainingInterfaces/Spectrogram_to_Embedding/StyleEmbedding.py).    *)
(*                                                                         *)
(* The forward pass turns a padded batch of spectrograms and a vector of   *)
(* lengths into a batch of windows of window_size time-steps, which it     *)
(* hands to the style encoder (self.gst).  The model is the control flow   *)
(* of forward, one action per statement group, over tensors represented    *)
(* as sequences of rows, a row being a sequence of F numbers.              *)
(*                                                                         *)
(* numpy's process-wide generator is the variable np_random.  The caller   *)
(* of forward is the variable pending: the calls (and numpy.random.seed    *)
(* calls) it is going to make, in order.                                   *)
(***************************************************************************)
EXTENDS Integers, Sequences, FiniteSets

VARIABLES
    pending,                       \* what the caller still does: seed and forward calls
    np_random,                     \* state of numpy's global generator
    pc,                            \* position of the interpreter in forward
    batch_of_spectrograms,         \* argument: N entries of L_max rows of F numbers
    batch_of_spectrogram_lengths,  \* argument: the length vector
    list_of_specs,                 \* local, line 44
    index,                         \* local, loop counter of enumerate, 0-based
    spec,                          \* local, lines 46-53
    current_spec_length,           \* local, lines 49 and 53
    frames_to_remove,              \* local, line 56
    remove_front,                  \* local, line 57
    gst_input,                     \* batch_of_spectrograms_unified_length, line 63
    error,                         \* the exception that ended the call, or "none"
    n_repeats,                     \* number of spec.repeat calls for this element
    rng_calls,                     \* number of numpy.random.randint calls so far
    elem,                          \* generator state and rng_calls when the element began
    branch,                        \* which arm of lines 54-61 the last element took
    entry_rng,                     \* generator state when forward was entered
    history                        \* the calls that have ended, oldest first

vars == <<pending, np_random, pc, batch_of_spectrograms, batch_of_spectrogram_lengths,
          list_of_specs, index, spec, current_spec_length, frames_to_remove,
          remove_front, gst_input, error, n_repeats, rng_calls, elem, branch,
          entry_rng, history>>

-----------------------------------------------------------------------------
(* Program constant and the bounds of the model *)

window_size == 256

\* time extent of the padded batch tensor
L_max == 257

\* feature columns per time-step
F == 2

\* largest batch size and largest length-vector size
MaxBatch == 2

\* number of states of the generator
RngMod == 32

\* cap of the counter n_repeats
MaxRepeats == 10

Min(a, b) == IF a < b THEN a ELSE b
Max(a, b) == IF a > b THEN a ELSE b

RECURSIVE Pow2(_)
Pow2(k) == IF k = 0 THEN 1 ELSE 2 * Pow2(k - 1)

-----------------------------------------------------------------------------
(* Tensors *)

\* The number in column c of time-step t of batch entry e: every row of the
\* input differs from every other row.
Cell(e, t, c) == e * 100000 + t * 100 + c

PaddedBatch == [e \in 1..MaxBatch |-> [t \in 1..L_max |-> [c \in 1..F |-> Cell(e, t, c)]]]

\* a batch tensor of shape (n, L_max, F)
Tensor(n) == SubSeq(PaddedBatch, 1, n)

\* faulty variant: the entry is not cut to its length
SliceNoClip(s, k) == s

\* s[:k] of Python: k clipped to the length, a negative k counted from the end
SliceTo(s, k) ==
    IF k >= 0 THEN SubSeq(s, 1, Min(k, Len(s)))
              ELSE SubSeq(s, 1, Max(0, Len(s) + k))

\* s[lo:hi] of Python for 0 <= lo <= hi
SliceFromTo(s, lo, hi) == SubSeq(s, Min(lo, Len(s)) + 1, Min(hi, Len(s)))

\* s.repeat((2, 1)): two copies along the time axis
Repeat2(s) == s \o s

-----------------------------------------------------------------------------
(* numpy.random *)

\* numpy.random.randint(low=0, high=high) in generator state s, for high > 0:
\* a number in 0..high-1 that the state determines
randint(s, high) == s % high

\* the generator state after a draw
rng_next(s) == (5 * s + 3) % RngMod

-----------------------------------------------------------------------------
(* The caller *)

\* lengths the caller passes
Lengths == {0, 1, 3, 128, 142, 256, L_max, L_max + 1}
PairLengths == {64, 142}
LoopLengths == {0, 1, 3, 5, 127, 128, 129, 142, 256, L_max, L_max + 1}
LoopSeeds == {0}
PairSeeds == {0, 1}

SeqsUpTo(S, n) == UNION {[1..k -> S] : k \in 0..n}
SeqsOf(S, n) == [1..n -> S]

SeedOp(s) == [op |-> "seed", state |-> s]
ForwardOp(n, ls) == [op |-> "forward", n |-> n, lengths |-> ls]

\* one seeded call, lengths of any size up to MaxBatch, valid or not
Workloads ==
    { <<SeedOp(s), ForwardOp(n, ls)>> :
        s \in 0..(RngMod - 1), n \in 1..MaxBatch, ls \in SeqsUpTo(Lengths, MaxBatch) }

\* one call, over more lengths and from one generator state
LoopWorkloads ==
    { <<SeedOp(s), ForwardOp(n, ls)>> :
        s \in LoopSeeds, n \in 1..MaxBatch, ls \in SeqsUpTo(LoopLengths, MaxBatch) }

\* two calls on well-formed batches, the second with or without a new seed
PairCalls == UNION { { ForwardOp(n, ls) : ls \in SeqsOf(PairLengths, n) } : n \in 1..MaxBatch }
PairWorkloads ==
    { <<SeedOp(s1), c1, SeedOp(s2), c2>> : s1 \in PairSeeds, s2 \in PairSeeds,
                                            c1 \in PairCalls, c2 \in PairCalls }
    \cup
    { <<SeedOp(s1), c1, c2>> : s1 \in PairSeeds, c1 \in PairCalls, c2 \in PairCalls }

-----------------------------------------------------------------------------
(* State after construction *)

InitLocals ==
    /\ np_random = 0
    /\ pc = "idle"
    /\ batch_of_spectrograms = <<>>
    /\ batch_of_spectrogram_lengths = <<>>
    /\ list_of_specs = <<>>
    /\ index = 0
    /\ spec = <<>>
    /\ current_spec_length = 0
    /\ frames_to_remove = 0
    /\ remove_front = 0
    /\ gst_input = <<>>
    /\ error = "none"
    /\ n_repeats = 0
    /\ rng_calls = 0
    /\ elem = [rng |-> 0, calls |-> 0]
    /\ branch = "none"
    /\ entry_rng = 0
    /\ history = <<>>

Init == pending \in Workloads /\ InitLocals

InitPair == pending \in PairWorkloads /\ InitLocals

InitLoop == pending \in LoopWorkloads /\ InitLocals

-----------------------------------------------------------------------------
(* The call *)

CallRecord(status, out) ==
    [n |-> Len(batch_of_spectrograms), lengths |-> batch_of_spectrogram_lengths,
     rng |-> entry_rng, status |-> status, out |-> out]

\* numpy.random.seed(state), called by the caller between forward passes
seed ==
    /\ pc \in {"idle", "done", "raised"}
    /\ pending # <<>> /\ Head(pending).op = "seed"
    /\ np_random' = Head(pending).state
    /\ pending' = Tail(pending)
    /\ UNCHANGED <<pc, batch_of_spectrograms, batch_of_spectrogram_lengths, list_of_specs,
                   index, spec, current_spec_length, frames_to_remove, remove_front,
                   gst_input, error, n_repeats, rng_calls, elem, branch, entry_rng, history>>

\* lines 22-45: entry into forward; list_of_specs starts as `fresh`
Enter(fresh) ==
    /\ pc \in {"idle", "done", "raised"}
    /\ pending # <<>> /\ Head(pending).op = "forward"
    /\ batch_of_spectrograms' = Tensor(Head(pending).n)
    /\ batch_of_spectrogram_lengths' = Head(pending).lengths
    /\ pending' = Tail(pending)
    /\ list_of_specs' = fresh
    /\ index' = 0
    /\ pc' = "for"
    /\ error' = "none"
    /\ gst_input' = <<>>
    /\ branch' = "none"
    /\ entry_rng' = np_random
    /\ UNCHANGED <<np_random, spec, current_spec_length, frames_to_remove, remove_front,
                   n_repeats, rng_calls, elem, history>>

\* faulty variant: the list of windows survives from the call before
forward_keeps_list == Enter(list_of_specs)

\* line 44: list_of_specs = list()
forward == Enter(<<>>)

-----------------------------------------------------------------------------
(* The loop over the batch, lines 45-61 *)

Raise(exception) ==
    /\ pc' = "raised"
    /\ error' = exception
    /\ history' = Append(history, CallRecord(exception, <<>>))

\* faulty variants: doubling again at exactly W; testing before doubling
WhileGuardLE == current_spec_length <= window_size
WhileGuardHalf == current_spec_length * 2 < window_size

\* line 50: the condition of the while loop
WhileGuard == current_spec_length < window_size

\* faulty variant: the exact length W routed to the random crop
CropGuardGE == current_spec_length >= window_size

\* line 54: the condition of the if
CropGuard == current_spec_length > window_size

\* line 59: the condition of the elif
AsIsGuard == current_spec_length = window_size

\* lines 45-46: the next length of the vector, and the slice of the entry at
\* the same position; indexing past the last entry raises IndexError
ForIter ==
    /\ pc = "for"
    /\ index < Len(batch_of_spectrogram_lengths)
    /\ IF index < Len(batch_of_spectrograms)
       THEN /\ spec' = SliceTo(batch_of_spectrograms[index + 1],
                               batch_of_spectrogram_lengths[index + 1])
            /\ pc' = "repeat"
            /\ n_repeats' = 0
            /\ elem' = [rng |-> np_random, calls |-> rng_calls]
            /\ UNCHANGED <<error, history>>
       ELSE /\ Raise("IndexError")
            /\ UNCHANGED <<spec, n_repeats, elem>>
    /\ UNCHANGED <<pending, np_random, batch_of_spectrograms, batch_of_spectrogram_lengths,
                   list_of_specs, index, current_spec_length, frames_to_remove,
                   remove_front, gst_input, rng_calls, branch, entry_rng>>

Double ==
    /\ spec' = Repeat2(spec)
    /\ current_spec_length' = Len(spec')
    /\ n_repeats' = IF n_repeats < MaxRepeats THEN n_repeats + 1 ELSE n_repeats
    /\ pc' = "while"
    /\ UNCHANGED <<pending, np_random, batch_of_spectrograms, batch_of_spectrogram_lengths,
                   list_of_specs, index, frames_to_remove, remove_front, gst_input, error,
                   rng_calls, elem, branch, entry_rng, history>>

\* lines 48-49: double the length at least once
RepeatOnce ==
    /\ pc = "repeat"
    /\ Double

\* lines 50-53: make it longer
WhileBody ==
    /\ pc = "while"
    /\ WhileGuard
    /\ Double

\* the element is done: back to line 45
NextElement(specs, taken) ==
    /\ list_of_specs' = specs
    /\ branch' = taken
    /\ index' = index + 1
    /\ pc' = "for"

\* lines 54-58: take random window; randint raises ValueError when high <= 0
Crop ==
    /\ pc = "while"
    /\ ~WhileGuard
    /\ CropGuard
    /\ frames_to_remove' = current_spec_length - window_size
    /\ rng_calls' = rng_calls + 1
    /\ IF frames_to_remove' > 0
       THEN /\ remove_front' = randint(np_random, frames_to_remove')
            /\ np_random' = rng_next(np_random)
            /\ NextElement(Append(list_of_specs,
                                  SliceFromTo(spec, remove_front', remove_front' + window_size)),
                           "crop")
            /\ UNCHANGED <<error, history>>
       ELSE /\ Raise("ValueError")
            /\ UNCHANGED <<remove_front, np_random, list_of_specs, branch, index>>
    /\ UNCHANGED <<pending, batch_of_spectrograms, batch_of_spectrogram_lengths, spec,
                   current_spec_length, gst_input, n_repeats, elem, entry_rng>>

\* faulty variant: the exact length W cropped at a drawn offset like the rest
ElifDraws ==
    /\ pc = "while"
    /\ ~WhileGuard
    /\ ~CropGuard
    /\ rng_calls' = rng_calls + 1
    /\ np_random' = rng_next(np_random)
    /\ frames_to_remove' = current_spec_length - window_size
    /\ remove_front' = randint(np_random, frames_to_remove' + 1)
    /\ NextElement(Append(list_of_specs,
                          SliceFromTo(spec, remove_front', remove_front' + window_size)),
                   "as_is")
    /\ UNCHANGED <<pending, batch_of_spectrograms, batch_of_spectrogram_lengths, spec,
                   current_spec_length, gst_input, error, n_repeats, elem, entry_rng,
                   history>>

\* lines 59-61: take as is; an if/elif without else appends nothing when
\* neither condition holds
Elif ==
    /\ pc = "while"
    /\ ~WhileGuard
    /\ ~CropGuard
    /\ IF AsIsGuard
       THEN NextElement(Append(list_of_specs, spec), "as_is")
       ELSE NextElement(list_of_specs, "skipped")
    /\ UNCHANGED <<pending, np_random, batch_of_spectrograms, batch_of_spectrogram_lengths,
                   spec, current_spec_length, frames_to_remove, remove_front, gst_input,
                   error, n_repeats, rng_calls, elem, entry_rng, history>>

\* lines 63-66: stack the windows and call the encoder on them; torch.stack
\* raises RuntimeError on an empty list
Stack ==
    /\ pc = "for"
    /\ index >= Len(batch_of_spectrogram_lengths)
    /\ IF list_of_specs # <<>>
       THEN /\ gst_input' = list_of_specs
            /\ pc' = "done"
            /\ history' = Append(history, CallRecord("returned", list_of_specs))
            /\ UNCHANGED error
       ELSE /\ Raise("RuntimeError")
            /\ UNCHANGED gst_input
    /\ UNCHANGED <<pending, np_random, batch_of_spectrograms, batch_of_spectrogram_lengths,
                   list_of_specs, index, spec, current_spec_length, frames_to_remove,
                   remove_front, n_repeats, rng_calls, elem, branch, entry_rng>>

Next ==
    \/ seed
    \/ forward
    \/ ForIter
    \/ RepeatOnce
    \/ WhileBody
    \/ Crop
    \/ Elif
    \/ Stack

Spec == Init /\ [][Next]_vars

SpecPair == InitPair /\ [][Next]_vars

\* forward runs on one interpreter thread that does not stop of itself
FairSpec == InitLoop /\ [][Next]_vars /\ WF_vars(Next)

-----------------------------------------------------------------------------
(* Vocabulary of the properties *)

N == Len(batch_of_spectrograms)

Range(s) == {s[i] : i \in DOMAIN s}

InCall == pc # "idle"

\* the length given for the element being processed (pc is "repeat" or "while")
ThisLength == batch_of_spectrogram_lengths[index + 1]

\* an element has just been finished (pc is "for", index counts it)
ElementDone == pc = "for" /\ index >= 1 /\ branch # "none"
DoneLength == batch_of_spectrogram_lengths[index]
DoneEntry == batch_of_spectrograms[index]
LastWindow == list_of_specs[Len(list_of_specs)]

ValidLength(n) == 1 <= n /\ n <= L_max

ValidInput ==
    /\ Len(batch_of_spectrogram_lengths) = N
    /\ \A i \in DOMAIN batch_of_spectrogram_lengths :
          ValidLength(batch_of_spectrogram_lengths[i])

\* w is W rows of src, read cyclically over its first n rows from row r on
CyclicWindow(w, src, n, r) ==
    /\ Len(w) = window_size
    /\ \A i \in 0..(window_size - 1) : w[i + 1] = src[((r + i) % n) + 1]

HasShape(w) ==
    /\ Len(w) = window_size
    /\ \A j \in 1..window_size : Len(w[j]) = F

\* the least k >= 1 with n * 2^k >= window_size
RECURSIVE LeastDoublings(_, _)
LeastDoublings(n, k) ==
    IF n * Pow2(k) >= window_size THEN k ELSE LeastDoublings(n, k + 1)

-----------------------------------------------------------------------------
(* C1 *)

\* C1: for a batch element with length n in 1..L_max, whatever offset was
\* drawn, the window appended for it is W rows of the source entry at indices
\* below n: there is an offset r < n with output row i = source row
\* (r + i) mod n for all i in 0..W-1.
C1_WindowFromValidRows ==
    (ElementDone /\ ValidLength(DoneLength) /\ list_of_specs # <<>>) =>
        \E r \in 0..(DoneLength - 1) :
            /\ LastWindow[1] = DoneEntry[r + 1]
            /\ CyclicWindow(LastWindow, DoneEntry, DoneLength, r)

\* a window of length 142 cropped at the largest offset, 27
C1_Witness ==
    /\ ElementDone /\ branch = "crop"
    /\ DoneLength = 142
    /\ remove_front = 27
    /\ CyclicWindow(LastWindow, DoneEntry, 142, 27)

-----------------------------------------------------------------------------
(* C2 *)

\* C2: on valid input (as many lengths as entries, each in 1..L_max) no
\* exception ends the call, every element appends exactly one window (none is
\* skipped), and the batch handed to the encoder has N windows, window i made
\* of rows of entry i, each of W time-steps and F columns.
C2_BatchShape ==
    (InCall /\ ValidInput) =>
        /\ error = "none"
        /\ branch # "skipped"
        /\ pc = "for" => Len(list_of_specs) = index
        /\ pc = "done" =>
              /\ Len(gst_input) = N
              /\ \A i \in 1..Len(gst_input) :
                    /\ HasShape(gst_input[i])
                    /\ gst_input[i][1] \in Range(batch_of_spectrograms[i])

\* a full batch of MaxBatch windows, one cropped and one taken as is
C2_Witness ==
    /\ pc = "done" /\ ValidInput
    /\ N = MaxBatch /\ Len(gst_input) = MaxBatch
    /\ batch_of_spectrogram_lengths[1] = 1
    /\ batch_of_spectrogram_lengths[N] = 142

-----------------------------------------------------------------------------
(* C3 *)

\* the doubled length is n * 2^k for the number k of doublings made, k >= 1,
\* and no doubling was made once the length had reached W
DoublingInv ==
    (pc = "while" /\ ValidLength(ThisLength)) =>
        /\ n_repeats >= 1
        /\ current_spec_length = ThisLength * Pow2(n_repeats)
        /\ Len(spec) = current_spec_length
        /\ n_repeats > 1 => ThisLength * Pow2(n_repeats - 1) < window_size

\* when the element is finished the length is n * 2^k for the least k >= 1
\* with n * 2^k >= W: 8 doublings for n = 1, one for n >= W/2
DoubledInv ==
    (ElementDone /\ ValidLength(DoneLength)) =>
        /\ n_repeats = LeastDoublings(DoneLength, 1)
        /\ current_spec_length = DoneLength * Pow2(n_repeats)
        /\ current_spec_length >= window_size
        /\ DoneLength = 1 => n_repeats = 8
        /\ 2 * DoneLength >= window_size => n_repeats = 1

\* C3: for every length n >= 1 the doubling loop terminates (an element whose
\* doubling has begun is finished), with doubled length n * 2^k for the
\* smallest k >= 1 such that n * 2^k >= W, which is >= W.
C3_DoublingTerminates ==
    /\ [](DoublingInv /\ DoubledInv)
    /\ [](((pc = "repeat" \/ pc = "while") /\ ValidLength(ThisLength)) => <>(pc = "for"))

\* a length of 1 has been doubled 8 times, to 256
C3_Witness ==
    /\ ElementDone /\ DoneLength = 1
    /\ n_repeats = 8 /\ current_spec_length = 256

-----------------------------------------------------------------------------
(* C4 *)

HasZeroLength == \E i \in DOMAIN batch_of_spectrogram_lengths :
                     batch_of_spectrogram_lengths[i] = 0

\* C4: when an entry of the length vector is 0 the call fails with
\* InvalidInputError before any element is sliced or doubled: it is either
\* still at its first loop test or has raised that error; it neither loops
\* nor returns.
C4_ZeroLengthRaises ==
    (InCall /\ HasZeroLength) =>
        \/ pc = "for" /\ index = 0
        \/ pc = "raised" /\ error = "InvalidInputError"

-----------------------------------------------------------------------------
(* C5 *)

\* C5: whenever a window was cropped, randint was asked for a number of the
\* non-empty range [0, d - W), the offset is in that range, and the slice
\* [offset, offset + W) lies inside the doubled sequence of length d; length
\* 142 gives d = 284 and an offset in 0..27.  randint never raises ValueError.
C5_CropRange ==
    /\ error # "ValueError"
    /\ (ElementDone /\ branch = "crop") =>
          /\ current_spec_length > window_size
          /\ frames_to_remove = current_spec_length - window_size
          /\ frames_to_remove >= 1
          /\ remove_front \in 0..(frames_to_remove - 1)
          /\ remove_front + window_size <= current_spec_length
          /\ Len(LastWindow) = window_size
          /\ LastWindow = SubSeq(spec, remove_front + 1, remove_front + window_size)
          /\ DoneLength = 142 => (current_spec_length = 284 /\ remove_front \in 0..27)

\* length 142 doubled once to 284 and cropped at offset 0 of the range 0..27
C5_Witness ==
    /\ ElementDone /\ branch = "crop"
    /\ DoneLength = 142 /\ current_spec_length = 284
    /\ frames_to_remove = 28 /\ remove_front = 0

-----------------------------------------------------------------------------
(* C6 *)

\* randint calls made for the element just finished
ElementDraws == rng_calls - elem.calls

\* C6: an element whose doubled length equals W is taken as is: its window is
\* the doubled sequence itself, and neither the state of the generator nor
\* its call counter changed while the element was processed; an element draws
\* from the generator once exactly when its doubled length exceeds W.
C6_ExactLengthNoDraw ==
    (ElementDone /\ current_spec_length >= window_size) =>
        /\ current_spec_length = window_size =>
              /\ branch = "as_is"
              /\ LastWindow = spec
              /\ ElementDraws = 0
              /\ np_random = elem.rng
        /\ (ElementDraws = 1) <=> (current_spec_length > window_size)
        /\ ElementDraws \in {0, 1}

\* length 128 doubled once to exactly 256, after an element that did draw
C6_Witness ==
    /\ ElementDone /\ branch = "as_is"
    /\ DoneLength = 128 /\ n_repeats = 1 /\ current_spec_length = window_size
    /\ index = 2 /\ batch_of_spectrogram_lengths[1] = 142
    /\ rng_calls = 1 /\ ElementDraws = 0

-----------------------------------------------------------------------------
(* C7 *)

HasOverLength == \E i \in DOMAIN batch_of_spectrogram_lengths :
                     batch_of_spectrogram_lengths[i] > L_max

\* C7: when a length exceeds the time extent L_max of the batch tensor the
\* call fails with InvalidInputError and hands nothing to the encoder; no
\* window is ever built for the over-long element.
C7_OverLengthRaises ==
    (InCall /\ HasOverLength) =>
        /\ pc # "done"
        /\ pc = "raised" => error = "InvalidInputError"
        /\ ElementDone => DoneLength <= L_max

-----------------------------------------------------------------------------
(* C8 *)

\* C8: when the length vector and the batch tensor differ in size the call
\* is aborted (with InvalidInputError): the encoder is never called on, and
\* the call never returns, a partial batch built from the elements that do
\* have a length.
C8_SizeMismatchRaises ==
    (InCall /\ Len(batch_of_spectrogram_lengths) # N) => pc # "done"

-----------------------------------------------------------------------------
(* C9 and C10: two calls *)

SameInput(a, b) == a.n = b.n /\ a.lengths = b.lengths

Returned(a) == a.status = "returned"

ShapeOf(a) == <<a.status, Len(a.out), {Len(w) : w \in Range(a.out)},
                {Len(row) : row \in UNION {Range(w) : w \in Range(a.out)}}>>

C10_ElementIndependent ==
    \A a \in Range(history) : \A b \in Range(history) :
        (Returned(a) /\ Returned(b) /\ a.rng = b.rng) =>
            \A i \in 1..Min(a.n, b.n) :
                a.lengths[i] = b.lengths[i] => a.out[i] = b.out[i]

====
